---- MODULE Spec2Model ----
(***************************************************************************)
(* ShiftyEMA (src/ShiftyEMA.h): a fixed-point exponential moving average   *)
(* computed with shifts.  An instance is a record of the class's five      *)
(* members; every method is an operator from the instance (and its         *)
(* argument) to the instance after the call or to the value returned.      *)
(*                                                                         *)
(* Integer types: int16_t samples, int32_t accumulator, and int taken as   *)
(* 32 bits wide (the integer promotions turn `newValue << scale` into an   *)
(* int shift).  Shifts and sums are computed in two's complement on 32     *)
(* bits; getCurrentEMA() narrows its result to int16_t.  Instances are     *)
(* built with scales up to 16: beyond that an int16_t sample shifted by    *)
(* the scale no longer fits the accumulator, which the class leaves to the *)
(* caller to avoid.                                                        *)
(***************************************************************************)
EXTENDS Integers, Sequences, FiniteSets, TLC

(***************************************************************************)
(* Bounds of the model.                                                    *)
(***************************************************************************)
\* Samples fed between two seedings (construction or reset).
MaxUpdates == 4
\* Samples fed before a constant input begins.
MaxEarlier == 1
\* Calls made on the unserialized instance, from both contexts together.
MaxCalls == 3

(***************************************************************************)
(* Machine integers.                                                       *)
(***************************************************************************)
INT32_MAX == (2^30 - 1) + 2^30
INT32_MIN == (-INT32_MAX) - 1
INT16_MAX == 2^15 - 1
INT16_MIN == -(2^15)

\* a + b on 32 bits, two's complement (the sum minus or plus 2^32 when it
\* leaves the int32 range).
Add32(a, b) ==
  IF b > 0 /\ a > INT32_MAX - b
    THEN ((a - INT32_MAX) - 1) + ((b - INT32_MAX) - 1)
    ELSE IF b < 0 /\ a < INT32_MIN - b
      THEN ((a + INT32_MAX) + 1) + ((b + INT32_MAX) + 1)
      ELSE a + b

\* a - b on 32 bits, two's complement.
Sub32(a, b) ==
  IF b = INT32_MIN
    THEN Add32(Add32(a, INT32_MAX), 1)
    ELSE Add32(a, -b)

\* x << n on 32 bits: n doublings, each keeping the low 32 bits.
RECURSIVE Shl32(_, _)
Shl32(x, n) == IF n <= 0 THEN x ELSE Shl32(Add32(x, x), n - 1)

\* A division by 2^n that rounds toward zero, as x / (1 << n) would.
Sar_towardZero(x, n) == (IF x >= 0 THEN x ELSE x + (2^n - 1)) \div (2^n)

\* x >> n of a signed int: the arithmetic shift, rounding toward minus
\* infinity (a shift by 31 leaves the sign alone).
Sar(x, n) == IF n >= 31 THEN (IF x < 0 THEN -1 ELSE 0) ELSE x \div (2^n)

\* Narrowing of an int to int16_t (the low 16 bits, two's complement).
ToInt16(v) == ((v + 2^15) % (2^16)) - 2^15

(***************************************************************************)
(* The inputs.                                                             *)
(***************************************************************************)
\* enum SmoothingExponent: SMOOTHING_VALUE_1 = 0 .. SMOOTHING_VALUE_512 = 9.
SMOOTHING_VALUE_1 == 0
SMOOTHING_VALUE_4 == 2
SMOOTHING_VALUE_512 == 9
Exponents == SMOOTHING_VALUE_1 .. SMOOTHING_VALUE_512

\* The constructor's default scale.
DefaultScale == 4

\* The scales instances are built with: the smallest one, the default, and
\* 16, the largest for which every int16_t sample shifted by it still fits
\* the int32_t accumulator.
Scales == {1, DefaultScale, 16}

\* int16_t samples: both ends of the type, zero, a small negative value and
\* the two samples of the documented example.
Samples == {INT16_MIN, -7, 0, 100, 200, INT16_MAX}

(***************************************************************************)
(* The class.                                                              *)
(***************************************************************************)
\* ShiftyEMA(SmoothingExponent smoothing, int16_t scale = 4)
ShiftyEMA(smoothing, sc) ==
  [ scaledEMA         |-> 0,
    smoothingExponent |-> smoothing,
    firstUpdate       |-> TRUE,
    scale             |-> sc,
    rounding          |-> Shl32(1, sc - 1) ]

\* The recurrence with the sample's share rounded to nearest, not down.
updateEMA_recurrence_roundedSample(self, newValue) ==
  Add32(Sub32(self.scaledEMA, Sar(self.scaledEMA, self.smoothingExponent)),
        Sar(Add32(Shl32(newValue, self.scale),
                  Sar(Shl32(1, self.smoothingExponent), 1)),
            self.smoothingExponent))

\* The recurrence without the decay of the old value.
updateEMA_recurrence_noDecay(self, newValue) ==
  Add32(self.scaledEMA,
        Sar(Shl32(newValue, self.scale), self.smoothingExponent))

\* The recurrence with the sample's share left unweighted.
updateEMA_recurrence_unweighted(self, newValue) ==
  Add32(Sub32(self.scaledEMA, Sar(self.scaledEMA, self.smoothingExponent)),
        Shl32(newValue, self.scale))

\* The right-hand side of the recurrence, on the two values its two
\* mentions of scaledEMA evaluate to: first the one that is subtracted from,
\* second the one that is shifted.
updateEMA_expr(first, second, self, newValue) ==
  Add32(Sub32(first, Sar(second, self.smoothingExponent)),
        Sar(Shl32(newValue, self.scale), self.smoothingExponent))

\* The else branch of updateEMA: the recurrence on the scaled value.
updateEMA_recurrence(self, newValue) ==
  updateEMA_expr(self.scaledEMA, self.scaledEMA, self, newValue)

\* void updateEMA(int16_t newValue)
updateEMA(self, newValue) ==
  IF self.firstUpdate
    THEN [self EXCEPT !.scaledEMA = Shl32(newValue, self.scale),
                      !.firstUpdate = FALSE]
    ELSE [self EXCEPT !.scaledEMA = updateEMA_recurrence(self, newValue)]

\* The read-out without the rounding term: a plain shift.
getCurrentEMA_truncating(self) ==
  ToInt16(Sar(self.scaledEMA, self.scale))

\* int16_t getCurrentEMA() const
getCurrentEMA(self) ==
  ToInt16(Sar(Add32(self.scaledEMA, self.rounding), self.scale))

\* int32_t getScaledEMA() const
getScaledEMA(self) == self.scaledEMA

\* A reset that clears the value and leaves the flag.
reset_keepsFlag(self) == [self EXCEPT !.scaledEMA = 0]

\* A reset that sets the flag and leaves the value.
reset_keepsValue(self) == [self EXCEPT !.firstUpdate = TRUE]

\* void reset()
reset(self) == [self EXCEPT !.firstUpdate = TRUE, !.scaledEMA = 0]

(***************************************************************************)
(* State.                                                                  *)
(*   ema    the instance                                                   *)
(*   prev   the instance as it was before the last call                    *)
(*   hist   the samples passed to updateEMA since construction or the last *)
(*          reset()                                                        *)
(*   op     the last call, arg its argument, ret the value it returned     *)
(*   ema2, prev2   a second instance fed the same samples (SpecPair)       *)
(*   target, feeding   the constant sample of a constant input, and        *)
(*          whether it is being fed (SpecConst)                            *)
(*   pc, tmp, reg, raced   the position of the main context in a call      *)
(*          that an interrupt may cut, the first of two loads of scaledEMA,*)
(*          what the main context holds of the members outside memory, and *)
(*          whether an interrupt ever ran while the main context was       *)
(*          inside a function that calls the instance (SpecIrq)            *)
(*   calls  the calls made so far from either context (SpecIrq)            *)
(***************************************************************************)
VARIABLES ema, prev, hist, op, arg, ret, ema2, prev2, target, feeding,
          pc, tmp, reg, raced, calls

vars == <<ema, prev, hist, op, arg, ret, ema2, prev2, target, feeding,
          pc, tmp, reg, raced, calls>>

pairVars == <<ema2, prev2>>
constVars == <<target, feeding>>
irqVars == <<pc, tmp, reg, raced, calls>>

\* What the main context holds of the two members it writes, outside memory:
\* for each a value (none, or one), and whether a store of it is still
\* to be made.  Nothing is held between functions.
NoReg == [flag |-> <<>>, value |-> <<>>, dflag |-> FALSE, dvalue |-> FALSE]

UpdateCalls == {"updateEMA", "getCurrentEMA(newValue)"}
ReadCalls == {"getCurrentEMA", "getScaledEMA"}

Instances == {ShiftyEMA(k, sc) : k \in Exponents, sc \in Scales}

\* One instance, just constructed; what the other specifications use is
\* left at rest.
Init ==
  /\ ema \in Instances
  /\ prev = ema
  /\ hist = <<>>
  /\ op = "ShiftyEMA"
  /\ arg = 0
  /\ ret = 0
  /\ ema2 = ema
  /\ prev2 = ema
  /\ target = 0
  /\ feeding = FALSE
  /\ pc = "idle"
  /\ tmp = 0
  /\ reg = NoReg
  /\ raced = FALSE
  /\ calls = 0

\* ema.updateEMA(x)
Update(x) ==
  /\ Len(hist) < MaxUpdates
  /\ prev' = ema
  /\ ema' = updateEMA(ema, x)
  /\ hist' = Append(hist, x)
  /\ op' = "updateEMA"
  /\ arg' = x
  /\ ret' = 0
  /\ UNCHANGED <<pairVars, constVars, irqVars>>

\* ema.getCurrentEMA(x): updateEMA(x), then the value of getCurrentEMA()
UpdateAndRead(x) ==
  /\ Len(hist) < MaxUpdates
  /\ prev' = ema
  /\ ema' = updateEMA(ema, x)
  /\ hist' = Append(hist, x)
  /\ op' = "getCurrentEMA(newValue)"
  /\ arg' = x
  /\ ret' = getCurrentEMA(updateEMA(ema, x))
  /\ UNCHANGED <<pairVars, constVars, irqVars>>

\* A read that adds the rounding term to the member itself.
Read_inPlaceRounding ==
  /\ prev' = ema
  /\ ema' = [ema EXCEPT !.scaledEMA = Add32(ema.scaledEMA, ema.rounding)]
  /\ ret' = getCurrentEMA(ema)
  /\ op' = "getCurrentEMA"
  /\ arg' = 0
  /\ hist' = hist
  /\ UNCHANGED <<pairVars, constVars, irqVars>>

\* ema.getCurrentEMA()
Read ==
  /\ prev' = ema
  /\ ema' = ema
  /\ ret' = getCurrentEMA(ema)
  /\ op' = "getCurrentEMA"
  /\ arg' = 0
  /\ hist' = hist
  /\ UNCHANGED <<pairVars, constVars, irqVars>>

\* ema.getScaledEMA()
ReadScaled ==
  /\ prev' = ema
  /\ ema' = ema
  /\ ret' = getScaledEMA(ema)
  /\ op' = "getScaledEMA"
  /\ arg' = 0
  /\ hist' = hist
  /\ UNCHANGED <<pairVars, constVars, irqVars>>

\* ema.reset()
Reset ==
  /\ prev' = ema
  /\ ema' = reset(ema)
  /\ hist' = <<>>
  /\ op' = "reset"
  /\ arg' = 0
  /\ ret' = 0
  /\ UNCHANGED <<pairVars, constVars, irqVars>>

Next ==
  \/ \E x \in Samples : Update(x)
  \/ \E x \in Samples : UpdateAndRead(x)
  \/ Read
  \/ ReadScaled
  \/ Reset

Spec == Init /\ [][Next]_vars

(***************************************************************************)
(* SpecPair: two instances of the same scale, the second with the larger   *)
(* smoothing exponent, fed the same samples call by call.                  *)
(***************************************************************************)
InitPair ==
  /\ ema \in Instances
  /\ ema2 \in {e \in Instances :
                 /\ e.scale = ema.scale
                 /\ e.smoothingExponent > ema.smoothingExponent}
  /\ prev = ema
  /\ prev2 = ema2
  /\ hist = <<>>
  /\ op = "ShiftyEMA"
  /\ arg = 0
  /\ ret = 0
  /\ target = 0
  /\ feeding = FALSE
  /\ pc = "idle"
  /\ tmp = 0
  /\ reg = NoReg
  /\ raced = FALSE
  /\ calls = 0

\* ema.updateEMA(x); ema2.updateEMA(x)
PairUpdate(x) ==
  /\ Len(hist) < MaxUpdates
  /\ prev' = ema
  /\ prev2' = ema2
  /\ ema' = updateEMA(ema, x)
  /\ ema2' = updateEMA(ema2, x)
  /\ hist' = Append(hist, x)
  /\ op' = "updateEMA"
  /\ arg' = x
  /\ ret' = 0
  /\ UNCHANGED <<constVars, irqVars>>

NextPair == \E x \in Samples : PairUpdate(x)

SpecPair == InitPair /\ [][NextPair]_vars

(***************************************************************************)
(* SpecConst: a constant input.  After at most MaxEarlier arbitrary        *)
(* samples the host passes the same sample, target, to every updateEMA,    *)
(* and goes on calling: ConstFeed is weakly fair.                          *)
(***************************************************************************)
InitConst ==
  /\ ema \in Instances
  /\ target \in Samples
  /\ feeding = FALSE
  /\ prev = ema
  /\ hist = <<>>
  /\ op = "ShiftyEMA"
  /\ arg = 0
  /\ ret = 0
  /\ ema2 = ema
  /\ prev2 = ema
  /\ pc = "idle"
  /\ tmp = 0
  /\ reg = NoReg
  /\ raced = FALSE
  /\ calls = 0

\* ema.updateEMA(x), before the input turns constant
ConstEarlier(x) ==
  /\ ~feeding
  /\ Len(hist) < MaxEarlier
  /\ prev' = ema
  /\ ema' = updateEMA(ema, x)
  /\ hist' = Append(hist, x)
  /\ op' = "updateEMA"
  /\ arg' = x
  /\ UNCHANGED <<ret, target, feeding, pairVars, irqVars>>

\* ema.updateEMA(target) on a Tracking instance, again and again
ConstFeed ==
  /\ hist # <<>>
  /\ prev' = ema
  /\ ema' = updateEMA(ema, target)
  /\ feeding' = TRUE
  /\ op' = "updateEMA"
  /\ arg' = target
  /\ UNCHANGED <<hist, ret, target, pairVars, irqVars>>

NextConst ==
  \/ \E x \in Samples : ConstEarlier(x)
  \/ ConstFeed

SpecConst == InitConst /\ [][NextConst]_vars /\ WF_vars(ConstFeed)

(***************************************************************************)
(* SpecIrq: no serialization.  The main context calls updateEMA(x),        *)
(* getCurrentEMA(x) and reset(); an interrupt handler that calls reset()   *)
(* or updateEMA(y) on the same instance runs to completion between any two *)
(* memory accesses of the main context.  The members are plain fields, so  *)
(* within one function of the main context a build is free in how it turns *)
(* the statements of the calls made there, one behind the other, into      *)
(* loads and stores.  The steps are those of any such build:               *)
(*   - a statement that assigns a member leaves the value in reg, its      *)
(*     store still to be made; a later assignment in the same function     *)
(*     replaces the value, and one store is made for both;                 *)
(*   - the stores still to be made are made in either order, except that   *)
(*     reset() stores firstUpdate before scaledEMA;                        *)
(*   - a statement that reads a member takes the value held in reg if a    *)
(*     store of it is still to be made; if a value is held from an earlier *)
(*     load or store of the function it takes that value or loads the      *)
(*     member again; otherwise it loads the member;                        *)
(*   - the recurrence loads scaledEMA once and uses the value twice, or    *)
(*     loads it once for each of its two mentions, left to right;          *)
(*   - when the function returns, every store has been made and nothing    *)
(*     is held.                                                            *)
(* hist lists the samples in the order the calls began; raced records that *)
(* a handler ran while the main context was inside a function that calls   *)
(* the instance.                                                           *)
(***************************************************************************)
\* The instances and the samples of the two contexts: the smallest, the
\* documented and the largest smoothing, every scale; the small negative
\* sample, the two samples of the documented example and the lower end of
\* int16_t.
IrqInstances ==
  {ShiftyEMA(k, sc) :
     k \in {SMOOTHING_VALUE_1, SMOOTHING_VALUE_4, SMOOTHING_VALUE_512},
     sc \in Scales}
IrqSamples == {INT16_MIN, -7, 100, 200}

\* One instance, just constructed, the main context between two functions.
InitIrq ==
  /\ ema \in IrqInstances
  /\ prev = ema
  /\ hist = <<>>
  /\ op = "ShiftyEMA"
  /\ arg = 0
  /\ ret = 0
  /\ ema2 = ema
  /\ prev2 = ema
  /\ target = 0
  /\ feeding = FALSE
  /\ pc = "idle"
  /\ tmp = 0
  /\ reg = NoReg
  /\ raced = FALSE
  /\ calls = 0

\* The values a read of firstUpdate by the main context can give.
FlagSeen ==
  IF reg.flag = <<>> THEN {ema.firstUpdate}
  ELSE IF reg.dflag THEN {reg.flag[1]}
  ELSE {reg.flag[1], ema.firstUpdate}

\* The values a read of scaledEMA by the main context can give.
ValueSeen ==
  IF reg.value = <<>> THEN {ema.scaledEMA}
  ELSE IF reg.dvalue THEN {reg.value[1]}
  ELSE {reg.value[1], ema.scaledEMA}

\* Where the statements of updateEMA end: in getCurrentEMA(newValue) the read
\* follows, otherwise the call is over.
AfterUpdate == IF op = "getCurrentEMA(newValue)" THEN "read" ELSE "done"

\* main context: updateEMA(x), or getCurrentEMA(x), is entered; at the start
\* of a function or behind another call of the same function
MainCall(o, x) ==
  /\ pc \in {"idle", "done"}
  /\ calls < MaxCalls
  /\ calls' = calls + 1
  /\ pc' = "test"
  /\ arg' = x
  /\ op' = o
  /\ hist' = Append(hist, x)
  /\ UNCHANGED <<ema, prev, ret, tmp, reg, raced, pairVars, constVars>>

\* if (firstUpdate)
MainTest ==
  /\ pc = "test"
  /\ \E f \in FlagSeen :
       /\ reg' = [reg EXCEPT !.flag = <<f>>]
       /\ pc' = IF f THEN "seed" ELSE "recur_read"
  /\ UNCHANGED <<ema, prev, hist, op, arg, ret, tmp, raced, calls, pairVars,
               constVars>>

\* scaledEMA = newValue << scale;
MainSeedWrite ==
  /\ pc = "seed"
  /\ reg' = [reg EXCEPT !.value = <<Shl32(arg, ema.scale)>>, !.dvalue = TRUE]
  /\ pc' = "seed_clear"
  /\ UNCHANGED <<ema, prev, hist, op, arg, ret, tmp, raced, calls, pairVars,
               constVars>>

\* The seeding branch without its assignment of firstUpdate.
MainSeedClear_keepsFlag ==
  /\ pc = "seed_clear"
  /\ pc' = AfterUpdate
  /\ UNCHANGED <<ema, prev, hist, op, arg, ret, tmp, reg, raced, calls,
               pairVars, constVars>>

\* firstUpdate = false;
MainSeedClear ==
  /\ pc = "seed_clear"
  /\ reg' = [reg EXCEPT !.flag = <<FALSE>>, !.dflag = TRUE]
  /\ pc' = AfterUpdate
  /\ UNCHANGED <<ema, prev, hist, op, arg, ret, tmp, raced, calls, pairVars,
               constVars>>

\* scaledEMA = <the recurrence>: scaledEMA is read for both of its mentions
\* and the assignment made, or it is loaded for the first mention only
MainRecurRead ==
  /\ pc = "recur_read"
  /\ \/ /\ \E v \in ValueSeen :
             reg' = [reg EXCEPT !.value = <<updateEMA_expr(v, v, ema, arg)>>,
                                !.dvalue = TRUE]
        /\ pc' = AfterUpdate
        /\ tmp' = tmp
     \/ /\ ~reg.dvalue
        /\ tmp' = ema.scaledEMA
        /\ pc' = "recur_reread"
        /\ reg' = reg
  /\ UNCHANGED <<ema, prev, hist, op, arg, ret, raced, calls, pairVars,
               constVars>>

\* scaledEMA = <the recurrence>: scaledEMA is loaded again for its second
\* mention, scaledEMA >> smoothingExponent, and the assignment made
MainRecurReread ==
  /\ pc = "recur_reread"
  /\ reg' = [reg EXCEPT
               !.value = <<updateEMA_expr(tmp, ema.scaledEMA, ema, arg)>>,
               !.dvalue = TRUE]
  /\ tmp' = 0
  /\ pc' = AfterUpdate
  /\ UNCHANGED <<ema, prev, hist, op, arg, ret, raced, calls, pairVars,
               constVars>>

\* getCurrentEMA(newValue): return getCurrentEMA();
MainRead ==
  /\ pc = "read"
  /\ \E v \in ValueSeen :
       /\ ret' = getCurrentEMA([ema EXCEPT !.scaledEMA = v])
       /\ reg' = [reg EXCEPT !.value = <<v>>]
  /\ pc' = "done"
  /\ UNCHANGED <<ema, prev, hist, op, arg, tmp, raced, calls, pairVars,
               constVars>>

\* main context: reset() is entered; at the start of a function or behind
\* another call of the same function
MainResetCall ==
  /\ pc \in {"idle", "done"}
  /\ calls < MaxCalls
  /\ calls' = calls + 1
  /\ pc' = "reset_flag"
  /\ op' = "reset"
  /\ hist' = <<>>
  /\ UNCHANGED <<ema, prev, arg, ret, tmp, reg, raced, pairVars, constVars>>

\* firstUpdate = true;
MainResetFlag ==
  /\ pc = "reset_flag"
  /\ reg' = [reg EXCEPT !.flag = <<TRUE>>, !.dflag = TRUE]
  /\ pc' = "reset_value"
  /\ UNCHANGED <<ema, prev, hist, op, arg, ret, tmp, raced, calls, pairVars,
               constVars>>

\* scaledEMA = 0;
MainResetValue ==
  /\ pc = "reset_value"
  /\ reg' = [reg EXCEPT !.value = <<0>>, !.dvalue = TRUE]
  /\ pc' = "done"
  /\ UNCHANGED <<ema, prev, hist, op, arg, ret, tmp, raced, calls, pairVars,
               constVars>>

\* the store of firstUpdate
MainStoreFlag ==
  /\ pc \in {"read", "done"}
  /\ reg.dflag
  /\ ema' = [ema EXCEPT !.firstUpdate = reg.flag[1]]
  /\ reg' = [reg EXCEPT !.dflag = FALSE]
  /\ UNCHANGED <<prev, hist, op, arg, ret, pc, tmp, raced, calls, pairVars,
               constVars>>

\* the store of scaledEMA; behind the store of firstUpdate = true
MainStoreValue ==
  /\ pc \in {"read", "done"}
  /\ reg.dvalue
  /\ ~(reg.dflag /\ reg.flag = <<TRUE>>)
  /\ ema' = [ema EXCEPT !.scaledEMA = reg.value[1]]
  /\ reg' = [reg EXCEPT !.dvalue = FALSE]
  /\ UNCHANGED <<prev, hist, op, arg, ret, pc, tmp, raced, calls, pairVars,
               constVars>>

\* main context: the function that made the calls returns
MainReturn ==
  /\ pc = "done"
  /\ ~reg.dflag
  /\ ~reg.dvalue
  /\ pc' = "idle"
  /\ reg' = NoReg
  /\ UNCHANGED <<ema, prev, hist, op, arg, ret, tmp, raced, calls, pairVars,
               constVars>>

\* interrupt context: reset()
IrqReset ==
  /\ calls < MaxCalls
  /\ calls' = calls + 1
  /\ ema' = reset(ema)
  /\ hist' = <<>>
  /\ raced' = (raced \/ pc # "idle")
  /\ UNCHANGED <<prev, op, arg, ret, pc, tmp, reg, pairVars, constVars>>

\* interrupt context: updateEMA(y)
IrqUpdate(y) ==
  /\ calls < MaxCalls
  /\ calls' = calls + 1
  /\ ema' = updateEMA(ema, y)
  /\ hist' = Append(hist, y)
  /\ raced' = (raced \/ pc # "idle")
  /\ UNCHANGED <<prev, op, arg, ret, pc, tmp, reg, pairVars, constVars>>

NextIrq ==
  \/ \E o \in UpdateCalls, x \in IrqSamples : MainCall(o, x)
  \/ MainTest
  \/ MainSeedWrite
  \/ MainSeedClear
  \/ MainRecurRead
  \/ MainRecurReread
  \/ MainRead
  \/ MainResetCall
  \/ MainResetFlag
  \/ MainResetValue
  \/ MainStoreFlag
  \/ MainStoreValue
  \/ MainReturn
  \/ IrqReset
  \/ \E y \in IrqSamples : IrqUpdate(y)

SpecIrq == InitIrq /\ [][NextIrq]_vars

(***************************************************************************)
(* What the claims are stated with.  The arithmetic here is the integers'  *)
(* own (products, floor divisions), not the 32-bit operators of the model. *)
(***************************************************************************)
Abs(x) == IF x < 0 THEN -x ELSE x

\* The smallest and the largest sample since the last seeding.
MinOf(s) == CHOOSE m \in {s[i] : i \in DOMAIN s} : \A i \in DOMAIN s : m <= s[i]
MaxOf(s) == CHOOSE m \in {s[i] : i \in DOMAIN s} : \A i \in DOMAIN s : m >= s[i]

\* The instance that feeding the samples of s, one call after the other,
\* makes of the freshly constructed instance.
RECURSIVE Replay(_, _)
Replay(fresh, s) ==
  IF s = <<>> THEN fresh
  ELSE updateEMA(Replay(fresh, SubSeq(s, 1, Len(s) - 1)), s[Len(s)])

\* The last call was an updateEMA on a Tracking instance, resp. on an
\* Uninitialized one (freshly constructed or reset).
TrackingUpdate == op \in UpdateCalls /\ Len(hist) >= 2
SeedingUpdate == op \in UpdateCalls /\ Len(hist) = 1

(***************************************************************************)
(* C1 Seeding: an updateEMA(x) on an Uninitialized instance (fresh, or     *)
(* reset after any updates) leaves the accumulator at x * 2^scale, makes   *)
(* getCurrentEMA() return exactly x, and leaves the instance equal to a    *)
(* brand-new instance of the same configuration fed x first.               *)
(***************************************************************************)
C1_Seeding ==
  SeedingUpdate =>
    /\ ema.scaledEMA = arg * 2^(ema.scale)
    /\ getCurrentEMA(ema) = arg
    /\ (op = "getCurrentEMA(newValue)" => ret = arg)
    /\ ema = updateEMA(ShiftyEMA(prev.smoothingExponent, prev.scale), arg)

\* A seeding with the largest sample at the largest scale and the strongest
\* smoothing, read back exactly.
C1_Witness ==
  /\ SeedingUpdate
  /\ op = "getCurrentEMA(newValue)"
  /\ arg = INT16_MAX
  /\ ema.scale = 16
  /\ ema.smoothingExponent = SMOOTHING_VALUE_512
  /\ ret = INT16_MAX

(***************************************************************************)
(* C2 Recurrence: an updateEMA(x) on a Tracking instance replaces the      *)
(* accumulator s by s - floor(s / 2^k) + floor(x * 2^scale / 2^k); with    *)
(* k = 2 and scale = 4, updateEMA(100), updateEMA(200) leaves              *)
(* getScaledEMA() = 2000 and getCurrentEMA() = 125.                        *)
(***************************************************************************)
C2_Recurrence ==
  /\ TrackingUpdate =>
       ema.scaledEMA =
         (prev.scaledEMA - (prev.scaledEMA \div 2^(prev.smoothingExponent)))
           + ((arg * 2^(prev.scale)) \div 2^(prev.smoothingExponent))
  /\ ( /\ ema.smoothingExponent = SMOOTHING_VALUE_4
       /\ ema.scale = 4
       /\ hist = <<100, 200>> )
     => (getScaledEMA(ema) = 2000 /\ getCurrentEMA(ema) = 125)

\* The documented example, reached.
C2_Witness ==
  /\ ema.smoothingExponent = SMOOTHING_VALUE_4
  /\ ema.scale = 4
  /\ hist = <<100, 200>>
  /\ op = "updateEMA"
  /\ prev.scaledEMA = 1600
  /\ ema.scaledEMA = 2000

(***************************************************************************)
(* C4 Monotonic approach without overshoot: an updateEMA(c) on a Tracking  *)
(* instance never moves the accumulator away from c * 2^scale nor across   *)
(* it, and getCurrentEMA() never passes c to the other side.               *)
(***************************************************************************)
C4_NoOvershoot ==
  TrackingUpdate =>
    LET c  == arg
        C  == arg * 2^(ema.scale)
        s0 == getScaledEMA(prev)
        s1 == getScaledEMA(ema)
    IN  /\ s0 <= C => (s0 <= s1 /\ s1 <= C)
        /\ s0 >= C => (C <= s1 /\ s1 <= s0)
        /\ s0 <= C => getCurrentEMA(ema) <= c
        /\ s0 >= C => getCurrentEMA(ema) >= c
        /\ getCurrentEMA(prev) <= c => getCurrentEMA(ema) <= c
        /\ getCurrentEMA(prev) >= c => getCurrentEMA(ema) >= c

\* The same constant fed twice in a row to a Tracking instance, the
\* accumulator moving toward it from below both times and not there yet.
C4_Witness ==
  /\ TrackingUpdate
  /\ Len(hist) >= 3
  /\ hist[Len(hist)] = hist[Len(hist) - 1]
  /\ getScaledEMA(prev) < getScaledEMA(ema)
  /\ getScaledEMA(ema) < arg * 2^(ema.scale)
  /\ getCurrentEMA(prev) < getCurrentEMA(ema)

(***************************************************************************)
(* C5 Rounding bound: in every reachable state getCurrentEMA() is within   *)
(* one half of scaledEMA / 2^scale:                                        *)
(* 2 * |getCurrentEMA() * 2^scale - getScaledEMA()| <= 2^scale.            *)
(***************************************************************************)
C5_RoundingBound ==
  2 * Abs(getCurrentEMA(ema) * 2^(ema.scale) - getScaledEMA(ema))
    <= 2^(ema.scale)

\* A read of an accumulator that lies exactly half way between two values.
C5_Witness ==
  /\ op = "getCurrentEMA"
  /\ ~ema.firstUpdate
  /\ ret = getCurrentEMA(ema)
  /\ ema.scale = DefaultScale
  /\ 2 * Abs(ret * 2^(ema.scale) - getScaledEMA(ema)) = 2^(ema.scale)

(***************************************************************************)
(* C6 Reads are pure and idempotent: getCurrentEMA() and getScaledEMA()    *)
(* change no member of the instance, in either state, and a read repeated  *)
(* with no updateEMA or reset in between returns the same value.           *)
(***************************************************************************)
C6_ReadsPure ==
  [][ /\ op' \in ReadCalls => ema' = ema
      /\ (op \in ReadCalls /\ op' = op) => ret' = ret ]_vars

\* A second read in a row of a Tracking instance whose value is not 0.
C6_Witness ==
  /\ op = "getCurrentEMA"
  /\ ~ema.firstUpdate
  /\ prev = ema
  /\ ret = getCurrentEMA(ema)
  /\ ret = 125

(***************************************************************************)
(* C3 Convergence on constant input: once the same constant sample is fed  *)
(* on every updateEMA of a Tracking instance, getCurrentEMA() eventually   *)
(* equals that sample and stays equal to it.  Stated on the state the      *)
(* constant input ends in: an accumulator that updateEMA(target) no longer *)
(* changes is where the instance stays for good, so it must read target.   *)
(***************************************************************************)
C3_FixedPointReadsTarget ==
  (feeding /\ updateEMA(ema, target) = ema) => getCurrentEMA(ema) = target

(***************************************************************************)
(* C7 Monotonic smoothing strength, as claimed: at every update after the  *)
(* first, the estimate of the instance with the larger exponent changes by *)
(* less than the estimate of the instance with the smaller one.            *)
(***************************************************************************)
C7_ChangesLessEveryUpdate ==
  (op = "updateEMA" /\ Len(hist) >= 2) =>
    Abs(getCurrentEMA(ema2) - getCurrentEMA(prev2))
      < Abs(getCurrentEMA(ema) - getCurrentEMA(prev))

(***************************************************************************)
(* C7 as amended: at the first update after the common seed, where both    *)
(* instances still hold the same accumulator, the instance with the larger *)
(* exponent moves in the same direction and by no more than the other, in  *)
(* its accumulator and in getCurrentEMA().                                 *)
(***************************************************************************)
C7_FirstUpdateChangesNoMore ==
  (op = "updateEMA" /\ Len(hist) = 2) =>
    /\ getScaledEMA(prev2) = getScaledEMA(prev)
    /\ \/ /\ getScaledEMA(prev) <= getScaledEMA(ema2)
          /\ getScaledEMA(ema2) <= getScaledEMA(ema)
       \/ /\ getScaledEMA(ema) <= getScaledEMA(ema2)
          /\ getScaledEMA(ema2) <= getScaledEMA(prev)
    /\ \/ /\ getCurrentEMA(prev) <= getCurrentEMA(ema2)
          /\ getCurrentEMA(ema2) <= getCurrentEMA(ema)
       \/ /\ getCurrentEMA(ema) <= getCurrentEMA(ema2)
          /\ getCurrentEMA(ema2) <= getCurrentEMA(prev)
    /\ Abs(getCurrentEMA(ema2) - getCurrentEMA(prev2))
         <= Abs(getCurrentEMA(ema) - getCurrentEMA(prev))

\* The first update after the seed, the stronger smoothing moving strictly
\* less than the weaker one.
C7_Witness ==
  /\ op = "updateEMA"
  /\ Len(hist) = 2
  /\ Abs(getCurrentEMA(ema2) - getCurrentEMA(prev2)) > 0
  /\ Abs(getCurrentEMA(ema2) - getCurrentEMA(prev2))
       < Abs(getCurrentEMA(ema) - getCurrentEMA(prev))

(***************************************************************************)
(* C8 Uninitialized state and reset: firstUpdate implies scaledEMA = 0,    *)
(* so both reads report 0 while Uninitialized; reset() yields the state of *)
(* a freshly constructed instance of the same configuration; the instance  *)
(* is Uninitialized exactly from construction or reset() to the next       *)
(* updateEMA, and Tracking from an updateEMA to the next reset().          *)
(***************************************************************************)
C8_UninitializedAndReset ==
  /\ ema.firstUpdate =>
       (ema.scaledEMA = 0 /\ getScaledEMA(ema) = 0 /\ getCurrentEMA(ema) = 0)
  /\ op = "reset" =>
       /\ ema = ShiftyEMA(prev.smoothingExponent, prev.scale)
       /\ ema.rounding = prev.rounding
  /\ op = "ShiftyEMA" => ema.firstUpdate
  /\ op = "reset" => ema.firstUpdate
  /\ op \in UpdateCalls => ~ema.firstUpdate
  /\ op \in ReadCalls => ema.firstUpdate = prev.firstUpdate
  /\ ema.firstUpdate <=> hist = <<>>
  /\ ema.smoothingExponent = prev.smoothingExponent
  /\ ema.scale = prev.scale

\* A reset of a Tracking instance that held a value other than 0.
C8_Witness ==
  /\ op = "reset"
  /\ ~prev.firstUpdate
  /\ prev.scaledEMA # 0
  /\ ema.firstUpdate
  /\ ema.scaledEMA = 0

(***************************************************************************)
(* C9 Not safe without serialization: as long as no interrupt handler has  *)
(* run while the main context was inside a function that calls the         *)
(* instance, every state between such functions is the state the calls     *)
(* produce one after the other (and has scaledEMA = 0 whenever firstUpdate *)
(* is set); once a handler has run there, states no serial order produces  *)
(* are reached (C9_Witness).                                               *)
(***************************************************************************)
C9_SerialWhenAtomic ==
  (pc = "idle" /\ ~raced) =>
    /\ ema = Replay(ShiftyEMA(ema.smoothingExponent, ema.scale), hist)
    /\ ema.firstUpdate => ema.scaledEMA = 0

\* After a handler's reset() that ran between the accesses of the main
\* context: firstUpdate set, scaledEMA not 0.
C9_Witness ==
  /\ pc = "idle"
  /\ raced
  /\ ema.firstUpdate
  /\ ema.scaledEMA # 0

(***************************************************************************)
(* C10 Range: in every Tracking state, with lo and hi the smallest and     *)
(* largest sample since the last seeding, lo * 2^scale <= scaledEMA <=     *)
(* hi * 2^scale and lo <= getCurrentEMA() <= hi; the accumulator stays in  *)
(* the range of the shifted int16 samples and the value getCurrentEMA()    *)
(* returns is the unnarrowed (scaledEMA + rounding) / 2^scale.             *)
(***************************************************************************)
C10_Range ==
  hist # <<>> =>
    LET lo == MinOf(hist)
        hi == MaxOf(hist)
    IN  /\ lo * 2^(ema.scale) <= getScaledEMA(ema)
        /\ getScaledEMA(ema) <= hi * 2^(ema.scale)
        /\ INT16_MIN * 2^(ema.scale) <= getScaledEMA(ema)
        /\ getScaledEMA(ema) <= INT16_MAX * 2^(ema.scale)
        /\ lo <= getCurrentEMA(ema)
        /\ getCurrentEMA(ema) <= hi
        /\ getCurrentEMA(ema) = (ema.scaledEMA + ema.rounding) \div 2^(ema.scale)

\* Three samples, the accumulator strictly inside their range, at the
\* default scale and from both ends of int16.
C10_Witness ==
  /\ Len(hist) = 3
  /\ MinOf(hist) = INT16_MIN
  /\ MaxOf(hist) = INT16_MAX
  /\ ema.scale = DefaultScale
  /\ MinOf(hist) * 2^(ema.scale) < getScaledEMA(ema)
  /\ getScaledEMA(ema) < MaxOf(hist) * 2^(ema.scale)
  /\ ~ema.firstUpdate

====
